---- MODULE Spec2Model ----
(***************************************************************************)
(* DataCollect0r_Bot: the record lifecycle.                                *)
(*                                                                         *)
(*   database.py                 the Record Store (tables dataset and      *)
(*                               dataset_backup in one SQLite file)        *)
(*   main.py                     the intake: DataCollector and its buffer  *)
(*   upload_data.py              the upload pass with the normalization    *)
(*                               loop around categorize                    *)
(*                                                                         *)
(* Python values.  A str is a sequence of one-character strings, so that   *)
(* strip and split are computed character by character.  A str the code    *)
(* only stores and compares (a date, a status, a user name) is a sequence  *)
(* of one opaque token (Str).  None is the one-token sequence <<"None">>:  *)
(* its token is no character, so no str equals it.                         *)
(***************************************************************************)
EXTENDS Naturals, Sequences, FiniteSets, TLC

VARIABLES
    dataset,         \* table dataset, committed: rowid -> row
    dataset_backup,  \* table dataset_backup, committed: rows, rowid = index
    txn,             \* the tables as the promoting connection sees them
    prom,            \* the running / last change_upload_status call
    user_messages,   \* DataCollector.user_messages
    upl,             \* the upload_data.py script
    last,            \* the last finished operation and its result
    responses,       \* what a stub of the classification capability has
                     \* still to answer, in order
    downloader,      \* instagram_downloader.py: process_all_videos
    temp_dir,        \* the files the downloader left in its directories
    handlers,        \* the handle_message coroutines of the bot
    posted           \* the rowids of dataset whose payload the remote API
                     \* has accepted (status 200)

vars == <<dataset, dataset_backup, txn, prom, user_messages, upl, last,
          responses, downloader, temp_dir, handlers, posted>>

\* What the Record Store, the intake and the upload pass leave alone
elsewhere == <<responses, downloader, temp_dir, handlers, posted>>

---------------------------------------------------------------------------
(* Bounds of the model *)

\* Largest number of rows of table dataset_backup
MaxBackup == 2
\* Largest number of messages a submitter's buffer holds before a message
MaxBuf == 2
\* The categorize calls for one row are counted up to MaxCalls
MaxCalls == 3
\* Largest number of updates the bot is sent
MaxUpdates == 3
\* Longest descriptor text parsed on its own
MaxText == 5

---------------------------------------------------------------------------
(* Python values *)

None == <<"None">>
Str(tok) == <<tok>>

\* Python truthiness of a str or None
Truthy(v) == v # None /\ v # <<>>

Max(S) == IF S = {} THEN 0 ELSE CHOOSE m \in S : \A n \in S : n <= m

\* str.strip(): leading and trailing whitespace removed
RECURSIVE lstrip(_)
lstrip(t) == IF t # <<>> /\ Head(t) = " " THEN lstrip(Tail(t)) ELSE t

RECURSIVE rstrip(_)
rstrip(t) ==
    IF t # <<>> /\ t[Len(t)] = " " THEN rstrip(SubSeq(t, 1, Len(t) - 1)) ELSE t

strip(t) == rstrip(lstrip(t))

\* str.split(sep): the parts of t between the occurrences of sep, [""] for ""
RECURSIVE SplitFrom(_, _, _)
SplitFrom(t, sep, cur) ==
    IF t = <<>> THEN <<cur>>
    ELSE IF Head(t) = sep THEN <<cur>> \o SplitFrom(Tail(t), sep, <<>>)
    ELSE SplitFrom(Tail(t), sep, Append(cur, Head(t)))

split(t, sep) == SplitFrom(t, sep, <<>>)

NOT_UPLOADED == Str("not uploaded")
UPLOADED == Str("uploaded")
NOT_DOWNLOADED == Str("not_downloaded")

---------------------------------------------------------------------------
(* database.py: the Record Store *)

Columns == {"telegram_id", "username", "category", "url", "date",
            "description", "upload_status"}

required_fields == <<"telegram_id", "username", "category", "url", "date">>

\* dict.get: the value, or None for a missing key
Get(data, k) == IF k \in DOMAIN data THEN data[k] ELSE None

\* Mutant of FirstMissing: only "field not in data" is tested
FirstMissing_keyOnly(data) ==
    LET bad == {i \in 1..Len(required_fields) :
                   required_fields[i] \notin DOMAIN data}
    IN  IF bad = {} THEN 0 ELSE CHOOSE i \in bad : \A j \in bad : i <= j

\* The first required field that is missing or None (0: there is none)
FirstMissing(data) ==
    LET bad == {i \in 1..Len(required_fields) :
                   \/ required_fields[i] \notin DOMAIN data
                   \/ data[required_fields[i]] = None}
    IN  IF bad = {} THEN 0 ELSE CHOOSE i \in bad : \A j \in bad : i <= j

\* The rows that conflict with data on UNIQUE (telegram_id, url, category)
Conflicts(d, data) ==
    {r \in DOMAIN d : /\ d[r].telegram_id = Get(data, "telegram_id")
                      /\ d[r].url = Get(data, "url")
                      /\ d[r].category = Get(data, "category")}

\* The rowid SQLite gives a new row: one more than the largest in the table
NewRowid(d) == Max(DOMAIN d) + 1

RowOf(data) == [c \in Columns |-> Get(data, c)]

\* Mutant of Upsert: a plain INSERT into a table without the UNIQUE clause
Upsert_plainInsert(d, data) ==
    [r \in DOMAIN d \cup {NewRowid(d)} |->
        IF r \in DOMAIN d THEN d[r] ELSE RowOf(data)]

\* INSERT INTO dataset ... ON CONFLICT (telegram_id, url, category) DO UPDATE
Upsert(d, data) ==
    IF Conflicts(d, data) # {}
    THEN [r \in DOMAIN d |->
            IF r \in Conflicts(d, data)
            THEN [d[r] EXCEPT !.username = Get(data, "username"),
                              !.date = Get(data, "date"),
                              !.upload_status = Get(data, "upload_status"),
                              !.description = Get(data, "description")]
            ELSE d[r]]
    ELSE [r \in DOMAIN d \cup {NewRowid(d)} |->
            IF r \in DOMAIN d THEN d[r] ELSE RowOf(data)]

\* UPDATE dataset SET upload_status = 'uploaded' WHERE rowid = ?
MarkUploaded(d, rowid) ==
    [r \in DOMAIN d |->
        IF r = rowid THEN [d[r] EXCEPT !.upload_status = UPLOADED] ELSE d[r]]

\* DELETE FROM dataset WHERE rowid = ?
DeleteRow(d, rowid) == [r \in DOMAIN d \ {rowid} |-> d[r]]

\* The row INSERT INTO dataset_backup writes: download_status by its default
BackupRow(a) ==
    [telegram_id |-> a.telegram_id, username |-> a.username,
     category |-> a.category, url |-> a.url, date |-> a.date,
     description |-> a.description, upload_status |-> UPLOADED,
     download_status |-> NOT_DOWNLOADED]

\* save_data_to_db: the tables after the call and what the call did.
\* storeFails: sqlite3 raises in connect, execute or commit, and nothing of
\* the statement is committed.
save_data_to_db(d, data, storeFails) ==
    IF FirstMissing(data) # 0
    THEN [d |-> d, res |-> "ValueError"]
    ELSE IF storeFails
    THEN [d |-> d, res |-> "error"]
    ELSE [d |-> Upsert(d, data),
          res |-> IF Conflicts(d, data) # {} THEN "updated" ELSE "inserted"]

---------------------------------------------------------------------------
(* Shapes of the bookkeeping variables *)

NoArgs == [rowid |-> 0, telegram_id |-> None, username |-> None,
           url |-> None, category |-> None, date |-> None,
           description |-> None, upload_status |-> None]

NoTxn == [d |-> <<>>, b |-> <<>>]

\* pc: idle, connected, updated, committed, inserted, deleted
\* n0: the number of rows of dataset_backup when the call started
\* moved: an earlier call with these arguments ran to its last commit
\* res, at: how the call ended (ok, failed, crash) and after which statement
IdleProm == [pc |-> "idle", args |-> NoArgs, retry |-> FALSE, moved |-> FALSE,
             n0 |-> 0, res |-> "none", at |-> "none"]

NoLast == [op |-> "none", res |-> "none"]

Done(op, res) == [op |-> op, res |-> res]

---------------------------------------------------------------------------
(* The Record Store as its callers drive it, one call at a time *)

A == Str("ann")
B == Str("bob")
D1 == Str("2024-06-08 12:00:00")
D2 == Str("2024-06-09 12:00:00")
UrlA == <<"H", "/", "a">>
UrlB == <<"H", "/", "b">>

MkData(id, name, cat, url, date, descr, st) ==
    [telegram_id |-> id, username |-> name, category |-> cat, url |-> url,
     date |-> date, description |-> descr, upload_status |-> st]

BaseData == MkData(Str("1"), A, <<"f">>, UrlA, D1, <<"x">>, NOT_UPLOADED)

\* Complete records: BaseData, a second version of it in every column an
\* upsert replaces, and a record that differs from it in one column of the
\* UNIQUE constraint
ValidData ==
    {BaseData,
     MkData(Str("1"), B, <<"f">>, UrlA, D2, <<"y">>, NOT_UPLOADED),
     MkData(Str("1"), A, <<"g">>, UrlA, D2, <<"x">>, NOT_UPLOADED)}

\* BaseData with one required key missing, or its value None
DefectiveData ==
    {[k \in Columns \ {required_fields[i]} |-> BaseData[k]] :
        i \in 1..Len(required_fields)}
    \cup {[BaseData EXCEPT ![required_fields[i]] = None] :
        i \in 1..Len(required_fields)}

SaveInputs == ValidData \cup DefectiveData

\* The label a caller passes as category (upload_data.py passes the
\* normalized one)
PromoteCats == {Str("fun")}

SaveData(data) ==
    /\ prom.pc = "idle"
    /\ \E storeFails \in BOOLEAN :
          LET r == save_data_to_db(dataset, data, storeFails)
          IN  /\ dataset' = r.d
              /\ last' = Done("save_data_to_db", r.res)
    /\ prom' = IdleProm
    /\ UNCHANGED <<dataset_backup, txn, user_messages, upl, elsewhere>>

ArgsOf(rowid, row, cat) ==
    [rowid |-> rowid, telegram_id |-> row.telegram_id,
     username |-> row.username, url |-> row.url, category |-> cat,
     date |-> row.date, description |-> row.description,
     upload_status |-> row.upload_status]

\* sqlite3.connect and conn.cursor()
ConnectTo(args, retry) ==
    /\ prom.pc = "idle"
    /\ Len(dataset_backup) < MaxBackup
    /\ prom' = [pc |-> "connected", args |-> args, retry |-> retry,
                moved |-> retry /\ (prom.moved \/ prom.res = "ok"),
                n0 |-> Len(dataset_backup), res |-> "none", at |-> "none"]
    /\ txn' = NoTxn
    /\ last' = Done("change_upload_status", "running")
    /\ UNCHANGED <<dataset, dataset_backup, user_messages>>

\* change_upload_status is called by a caller that posts nothing
Connect(args, retry) ==
    /\ ConnectTo(args, retry)
    /\ UNCHANGED elsewhere

\* A caller promotes a row it has just read from dataset
PromoteCall ==
    /\ \E r \in DOMAIN dataset, cat \in PromoteCats :
          Connect(ArgsOf(r, dataset[r], cat), FALSE)
    /\ UNCHANGED upl

\* A caller repeats the call it has just made, same rowid and same values
PromoteRetry ==
    /\ prom.args # NoArgs
    /\ last.op = "change_upload_status"
    /\ Connect(prom.args, TRUE)
    /\ UNCHANGED upl

\* cur.execute(UPDATE dataset SET upload_status ...): opens a transaction
PromoteUpdate ==
    /\ prom.pc = "connected"
    /\ txn' = [d |-> MarkUploaded(dataset, prom.args.rowid),
               b |-> dataset_backup]
    /\ prom' = [prom EXCEPT !.pc = "updated"]
    /\ UNCHANGED <<dataset, dataset_backup, user_messages, upl, last, elsewhere>>

\* the first conn.commit()
PromoteCommit1 ==
    /\ prom.pc = "updated"
    /\ dataset' = txn.d
    /\ dataset_backup' = txn.b
    /\ txn' = NoTxn
    /\ prom' = [prom EXCEPT !.pc = "committed"]
    /\ UNCHANGED <<user_messages, upl, last, elsewhere>>

\* Mutant of PromoteInsert: the INSERT is committed on its own
PromoteInsert_committed ==
    /\ prom.pc = "committed"
    /\ dataset_backup' = Append(dataset_backup, BackupRow(prom.args))
    /\ txn' = [d |-> dataset, b |-> dataset_backup']
    /\ prom' = [prom EXCEPT !.pc = "inserted"]
    /\ UNCHANGED <<dataset, user_messages, upl, last, elsewhere>>

\* cur.execute(INSERT INTO dataset_backup ...): opens a transaction
PromoteInsert ==
    /\ prom.pc = "committed"
    /\ txn' = [d |-> dataset,
               b |-> Append(dataset_backup, BackupRow(prom.args))]
    /\ prom' = [prom EXCEPT !.pc = "inserted"]
    /\ UNCHANGED <<dataset, dataset_backup, user_messages, upl, last, elsewhere>>

\* cur.execute(DELETE FROM dataset WHERE rowid = ?), same transaction
PromoteDelete ==
    /\ prom.pc = "inserted"
    /\ txn' = [txn EXCEPT !.d = DeleteRow(txn.d, prom.args.rowid)]
    /\ prom' = [prom EXCEPT !.pc = "deleted"]
    /\ UNCHANGED <<dataset, dataset_backup, user_messages, upl, last, elsewhere>>

\* the final conn.commit() and conn.close()
PromoteCommit2 ==
    /\ prom.pc = "deleted"
    /\ dataset' = txn.d
    /\ dataset_backup' = txn.b
    /\ txn' = NoTxn
    /\ prom' = [prom EXCEPT !.pc = "idle", !.res = "ok", !.at = prom.pc]
    /\ last' = Done("change_upload_status", "ok")
    /\ posted' = posted \cap DOMAIN txn.d
    /\ UNCHANGED <<user_messages, upl, responses, downloader, temp_dir,
                   handlers>>

\* The next statement raises: the except branch logs and returns [], the
\* connection is dropped and SQLite rolls its open transaction back
PromoteFail ==
    /\ prom.pc \in {"connected", "updated", "committed", "inserted", "deleted"}
    /\ txn' = NoTxn
    /\ prom' = [prom EXCEPT !.pc = "idle", !.res = "failed", !.at = prom.pc]
    /\ last' = Done("change_upload_status", "failed")
    /\ UNCHANGED <<dataset, dataset_backup, user_messages, upl, elsewhere>>

\* The process stops between two statements: what was committed stays, the
\* open transaction is rolled back when the file is next opened
Crash ==
    /\ prom.pc \in {"connected", "updated", "committed", "inserted", "deleted"}
    /\ txn' = NoTxn
    /\ prom' = [prom EXCEPT !.pc = "idle", !.res = "crash", !.at = prom.pc]
    /\ last' = Done("change_upload_status", "crash")
    /\ UNCHANGED <<dataset, dataset_backup, user_messages, upl, elsewhere>>

NoBuffers == <<>>

\* instagram_downloader.py when it is not running
\* pc: off, download, done, dead (ended by an exception)
\* urls_data, i: what get_distinct_urls returned and the row the loop is at
\* attempts: per row attempted, what the services would have answered and
\* what the downloader got
NoDownloader == [pc |-> "off", urls_data |-> <<>>, i |-> 0, attempts |-> <<>>]

NoHandlers == <<>>

\* The payload variable of upload_data.py before its first assignment
NoPayload == [post_url |-> None, date |-> None, category |-> None,
              description |-> None]

\* upload_data.py when it is not running
\* pc: off, normalize, post, promote, done, dead (ended by an exception)
\* rows, i: what get_payload_data returned and the row the loop is at
\* calls: the categorize calls made for this row
\* status: response.status_code of the POST of this row
NoUpload == [pc |-> "off", rows |-> <<>>, i |-> 0, categorized_value |-> None,
             calls |-> 0, payload |-> NoPayload, status |-> None]

Init ==
    /\ dataset = <<>>
    /\ dataset_backup = <<>>
    /\ txn = NoTxn
    /\ prom = IdleProm
    /\ user_messages = NoBuffers
    /\ upl = NoUpload
    /\ responses = <<>>
    /\ downloader = NoDownloader
    /\ temp_dir = {}
    /\ handlers = NoHandlers
    /\ posted = {}
    /\ last = NoLast

Next ==
    \/ \E data \in SaveInputs : SaveData(data)
    \/ PromoteCall
    \/ PromoteRetry
    \/ PromoteUpdate
    \/ PromoteCommit1
    \/ PromoteInsert
    \/ PromoteDelete
    \/ PromoteCommit2
    \/ PromoteFail
    \/ Crash

Spec == Init /\ [][Next]_vars

---------------------------------------------------------------------------
(* Claims on the Record Store *)

\* C1: a second change_upload_status with the same rowid and values, made
\* after the first one moved the Record to the archive, adds no row to
\* dataset_backup.
C1_RetryAddsNoRow ==
    (prom.retry /\ prom.moved) => Len(dataset_backup) = prom.n0

InPending == prom.args.rowid \in DOMAIN dataset

InArchive ==
    /\ Len(dataset_backup) = prom.n0 + 1
    /\ dataset_backup[Len(dataset_backup)] = BackupRow(prom.args)

\* C2: when the process stops between two statements of a promotion, the
\* committed tables hold the record in exactly one of dataset and
\* dataset_backup.
C2_CrashAtomic ==
    (~prom.retry /\ prom.res = "crash") =>
        \/ InPending /\ Len(dataset_backup) = prom.n0
        \/ ~InPending /\ InArchive

\* C2 witness: the process stopped between the INSERT and the DELETE
C2_Witness ==
    ~prom.retry /\ prom.res = "crash" /\ prom.at = "inserted" /\ InPending

\* C3: a promotion aborted by a failing statement leaves both tables as they
\* were: no row added to dataset_backup, and the pending row still there
\* with the upload_status it had when the call read it.
C3_FailureLeavesNoPartialState ==
    (~prom.retry /\ prom.res = "failed") =>
        /\ Len(dataset_backup) = prom.n0
        /\ InPending
        /\ dataset[prom.args.rowid].upload_status = prom.args.upload_status

SameTriple(x, y) ==
    x.telegram_id = y.telegram_id /\ x.url = y.url /\ x.category = y.category

UniqueTriple ==
    \A r1, r2 \in DOMAIN dataset :
        SameTriple(dataset[r1], dataset[r2]) => r1 = r2

\* What a completed save_data_to_db(data) whose triple was stored must have
\* done: same number of rows, the row of that triple now carries the call's
\* username, date, description and upload_status, every other row as before
Replaced(data) ==
    /\ Cardinality(DOMAIN dataset') = Cardinality(DOMAIN dataset)
    /\ \A r \in DOMAIN dataset :
          /\ r \in DOMAIN dataset'
          /\ IF SameTriple(dataset[r], data)
             THEN /\ SameTriple(dataset'[r], data)
                  /\ dataset'[r].username = data.username
                  /\ dataset'[r].date = data.date
                  /\ dataset'[r].description = data.description
                  /\ dataset'[r].upload_status = data.upload_status
             ELSE dataset'[r] = dataset[r]

\* C4: dataset never holds two rows with the same (telegram_id, url,
\* category), and a save_data_to_db whose triple is already stored keeps the
\* number of rows and replaces that row's username, date, description and
\* upload_status by the call's.
C4_UpsertUnique ==
    /\ []UniqueTriple
    /\ [][\A data \in ValidData :
            (/\ SaveData(data)
             /\ last'.res \in {"inserted", "updated"}
             /\ \E r \in DOMAIN dataset : SameTriple(dataset[r], data))
            => Replaced(data)]_vars

\* C4 witness: an upsert has replaced the row of a stored triple by the
\* record's second version while another row was stored
C4_Witness ==
    /\ last = Done("save_data_to_db", "updated")
    /\ Cardinality(DOMAIN dataset) = 2
    /\ \E r \in DOMAIN dataset :
          dataset[r] = RowOf(MkData(Str("1"), B, <<"f">>, UrlA, D2, <<"y">>,
                                    NOT_UPLOADED))

Absent(data, f) == f \notin DOMAIN data \/ data[f] = None

\* C5: save_data_to_db of a record without telegram_id, username, category,
\* url or date (key missing or None) raises and leaves dataset as it was.
C5_MissingFieldRejected ==
    [][\A data \in SaveInputs :
          (/\ SaveData(data)
           /\ \E f \in {"telegram_id", "username", "category", "url", "date"} :
                 Absent(data, f))
          => /\ last'.res = "ValueError"
             /\ dataset' = dataset]_vars

\* C5 witness: a call was refused while rows were stored
C5_Witness ==
    last = Done("save_data_to_db", "ValueError") /\ DOMAIN dataset # {}

---------------------------------------------------------------------------
(* main.py: the intake *)

\* is_url.  The character "H" stands for a scheme and host the pattern
\* accepts ("https://host.tld", with an optional port); after it the pattern
\* wants nothing, "/", or "/" or "?" followed by characters that are not
\* whitespace.
is_url(text) ==
    /\ text # <<>>
    /\ Head(text) = "H"
    /\ LET rest == Tail(text)
       IN  \/ rest = <<>>
           \/ rest = <<"/">>
           \/ /\ Len(rest) >= 2
              /\ Head(rest) \in {"/", "?"}
              /\ \A i \in 2..Len(rest) : rest[i] # " "

\* Mutant of parse_date_categories_description: only three parts are taken
parse_date_categories_description_threeParts(text) ==
    LET parts == split(strip(text), ",")
    IN  IF Len(parts) = 3 THEN <<parts[1], parts[2], parts[3]>>
        ELSE <<None, None, None>>

\* parse_date_categories_description: (date, categories, description)
parse_date_categories_description(text) ==
    LET parts == split(strip(text), ",")
    IN  IF Len(parts) = 3 THEN <<parts[1], parts[2], parts[3]>>
        ELSE IF Len(parts) = 2 THEN <<parts[1], parts[2], None>>
        ELSE <<None, None, None>>

NO_DESCRIPTION == Str("No description has been provided")

\* What calculate_timestamp may do: return a timestamp, return the empty
\* string, or raise (the request to the model fails)
Raised == Str("Exception")
TsOutcomes == {D1, <<>>, Raised}

\* process_messages, the for loop over the two messages: whether the
\* message makes the loop call calculate_timestamp
CallsResolver(msg) ==
    /\ ~is_url(msg)
    /\ LET p == parse_date_categories_description(msg)
       IN  Truthy(p[1]) /\ Truthy(p[2])

\* One iteration of that loop; o is what calculate_timestamp does if called
Classify(acc, msg, o) ==
    IF acc.raised THEN acc
    ELSE IF is_url(msg) THEN [acc EXCEPT !.url = msg]
    ELSE LET p == parse_date_categories_description(msg)
         IN  IF Truthy(p[1]) /\ Truthy(p[2]) /\ Truthy(p[3])
             THEN IF o = Raised THEN [acc EXCEPT !.raised = TRUE]
                  ELSE [acc EXCEPT !.date = o, !.categories = p[2],
                                   !.description = p[3]]
             ELSE IF Truthy(p[1]) /\ Truthy(p[2])
             THEN IF o = Raised THEN [acc EXCEPT !.raised = TRUE]
                  ELSE [acc EXCEPT !.date = o, !.categories = p[2],
                                   !.description = NO_DESCRIPTION]
             ELSE acc

NoFields == [url |-> None, date |-> None, categories |-> None,
             description |-> None, raised |-> FALSE]

\* The save_data_to_db calls of the loop over categories_list, from the
\* i-th on; the failAt-th call raises (0: none does)
RECURSIVE SaveEach(_, _, _, _)
SaveEach(d, datas, i, failAt) ==
    IF i > Len(datas) THEN [d |-> d, ok |-> TRUE]
    ELSE LET r == save_data_to_db(d, datas[i], i = failAt)
         IN  IF r.res \in {"inserted", "updated"}
             THEN SaveEach(r.d, datas, i + 1, failAt)
             ELSE [d |-> r.d, ok |-> FALSE]

\* process_messages, the for loop over messages[:2]
Fields(messages, ts) ==
    Classify(Classify(NoFields, messages[1], ts[1]), messages[2], ts[2])

\* "if url and date and categories and description"
Complete(f) ==
    /\ ~f.raised
    /\ Truthy(f.url) /\ Truthy(f.date) /\ Truthy(f.categories)
    /\ Truthy(f.description)

\* Mutant of CategoriesList: the categories token is not split
CategoriesList_unsplit(f) ==
    IF Complete(f) THEN <<strip(f.categories)>> ELSE <<>>

\* categories_list, empty when process_messages does not get to it
CategoriesList(f) ==
    IF Complete(f) THEN split(strip(f.categories), "/") ELSE <<>>

\* process_messages after the for loop, f being what the loop found
Store(user_id, entry, d, f, failAt) ==
    LET rest == SubSeq(entry.messages, 3, Len(entry.messages))
    IN  IF f.raised
        THEN [messages |-> entry.messages, d |-> d, res |-> "raise"]
        ELSE IF Complete(f)
        THEN LET categories_list == CategoriesList(f)
                 datas == [i \in 1..Len(categories_list) |->
                             MkData(user_id, entry.username,
                                    categories_list[i], f.url, f.date,
                                    f.description, NOT_UPLOADED)]
             IN  [messages |-> rest,
                  d |-> SaveEach(d, datas, 1, failAt).d,
                  res |-> IF failAt = 0 THEN "success" ELSE "dbfail"]
        ELSE [messages |-> rest, d |-> d, res |-> "invalid"]

\* process_messages: the buffer and the table after it, and its result
\* (raise: the exception of calculate_timestamp leaves the method)
process_messages(user_id, entry, d, ts, failAt) ==
    Store(user_id, entry, d, Fields(entry.messages, ts), failAt)

---------------------------------------------------------------------------
(* The intake as the chat platform drives it: one handler at a time *)

User1 == Str("1")
User2 == Str("2")
Users == {User1, User2}

\* user.username or user.first_name
NameOf(u) == IF u = User1 THEN A ELSE B

DescXFG == <<"2", "d", ",", "f", "/", "g", ",", "x">>   \* "2d,f/g,x"
DescF == <<"2", "d", ",", " ", "f", " ">>                \* "2d, f "
OnePart == <<"2", "d">>                                  \* "2d"
NoCategories == <<"2", "d", ",">>                        \* "2d,"
FourParts == <<"2", "d", ",", "f", ",", "x", ",", "y">>  \* "2d,f,x,y"

\* The texts a submitter sends
Texts(u) ==
    IF u = User1
    THEN {UrlA, DescXFG, DescF, OnePart, NoCategories, FourParts}
    ELSE {UrlA, DescF}

EntryOf(u) ==
    IF u \in DOMAIN user_messages
    THEN user_messages[u]
    ELSE [messages |-> <<>>, username |-> NameOf(u)]

SetEntry(u, entry) ==
    [v \in DOMAIN user_messages \cup {u} |->
        IF v = u THEN entry ELSE user_messages[v]]

\* What calculate_timestamp may do in the evaluation of msgs, for the first
\* and the second message (None: it is not called)
Answers(msgs) ==
    LET first == IF CallsResolver(msgs[1]) THEN TsOutcomes ELSE {None}
        second == IF CallsResolver(msgs[2]) THEN TsOutcomes ELSE {None}
    IN  {<<o1, IF o1 = Raised THEN None ELSE o2>> :
            o1 \in first, o2 \in second}

\* add_message, with process_messages when the buffer holds two messages.
\* ts: what calculate_timestamp does for the first and the second message;
\* failAt: which of the save_data_to_db calls raises (0: none).
add_message(u, message) ==
    LET entry == [messages |-> Append(EntryOf(u).messages, message),
                  username |-> NameOf(u)]
    IN  IF Len(entry.messages) >= 2
        THEN \E ts \in Answers(entry.messages) :
                \E f \in {Fields(entry.messages, ts)} :
                \E failAt \in 0..Len(CategoriesList(f)) :
                \E r \in {Store(u, entry, dataset, f, failAt)} :
                   /\ user_messages' =
                         SetEntry(u, [entry EXCEPT !.messages = r.messages])
                   /\ dataset' = r.d
                   /\ last' = [op |-> "add_message", res |-> r.res,
                               user |-> u, ts |-> ts, failAt |-> failAt]
        ELSE /\ user_messages' = SetEntry(u, entry)
             /\ dataset' = dataset
             /\ last' = [op |-> "add_message", res |-> "awaiting",
                         user |-> u, ts |-> <<None, None>>, failAt |-> 0]

\* A message of u is handled, one handler at a time
AddMessage(u, message) ==
    /\ Len(EntryOf(u).messages) < MaxBuf
    /\ add_message(u, message)
    /\ UNCHANGED <<dataset_backup, txn, prom, upl, elsewhere>>

\* clear_user_messages with every buffer emptied instead of that of user_id
clear_user_messages_everyone(b, u) ==
    [v \in DOMAIN b |-> [b[v] EXCEPT !.messages = <<>>]]

\* clear_user_messages: the buffers after the call
clear_user_messages(b, u) ==
    IF u \in DOMAIN b
    THEN [b EXCEPT ![u].messages = <<>>]
    ELSE b

\* reset: clear_user_messages; last.res tells whether messages were pending
ClearUserMessages(u) ==
    /\ user_messages' = clear_user_messages(user_messages, u)
    /\ last' = [op |-> "clear_user_messages",
                res |-> IF EntryOf(u).messages # <<>>
                        THEN "cleared" ELSE "none",
                user |-> u, ts |-> <<None, None>>, failAt |-> 0]
    /\ UNCHANGED <<dataset, dataset_backup, txn, prom, upl, elsewhere>>

InitIntake ==
    /\ dataset = <<>>
    /\ dataset_backup = <<>>
    /\ txn = NoTxn
    /\ prom = IdleProm
    /\ user_messages = NoBuffers
    /\ upl = NoUpload
    /\ responses = <<>>
    /\ downloader = NoDownloader
    /\ temp_dir = {}
    /\ handlers = NoHandlers
    /\ posted = {}
    /\ last = [op |-> "none", res |-> "none", user |-> None,
               ts |-> <<None, None>>, failAt |-> 0]

NextIntake ==
    \/ \E u \in Users : \E message \in Texts(u) : AddMessage(u, message)
    \/ \E u \in Users : ClearUserMessages(u)

SpecIntake == InitIntake /\ [][NextIntake]_vars

---------------------------------------------------------------------------
(* Claims on the intake *)

\* The descriptors among the texts that parse, with the category tokens and
\* the description each must give
ValidDescriptors == {DescXFG, DescF}
TokensOf(desc) == IF desc = DescXFG THEN {<<"f">>, <<"g">>} ELSE {<<"f">>}
DescriptionOf(desc) == IF desc = DescXFG THEN <<"x">> ELSE NO_DESCRIPTION

\* The two messages an add_message(u, message) evaluates
PairOf(u, message) == SubSeq(Append(EntryOf(u).messages, message), 1, 2)

OneReferenceOneDescriptor(pair, desc) ==
    \/ pair = <<UrlA, desc>>
    \/ pair = <<desc, UrlA>>

\* The timestamps calculate_timestamp returned in the last evaluation
Resolved(l) == {o \in {l.ts[1], l.ts[2]} : Truthy(o) /\ o # Raised}

RowsOfKey(d, u, url, cat) ==
    {r \in DOMAIN d : /\ d[r].telegram_id = u
                      /\ d[r].url = url
                      /\ d[r].category = cat}

\* After the step, dataset holds exactly one row per token of desc for
\* (u, UrlA), each with the same date and the description of desc, and
\* every row of another key is as it was
OneRecordPerToken(u, desc, date) ==
    /\ \A cat \in TokensOf(desc) :
          /\ Cardinality(RowsOfKey(dataset', u, UrlA, cat)) = 1
          /\ \A r \in RowsOfKey(dataset', u, UrlA, cat) :
                dataset'[r] = RowOf(MkData(u, NameOf(u), cat, UrlA, date,
                                           DescriptionOf(desc), NOT_UPLOADED))
    /\ \A r \in DOMAIN dataset' :
          \/ dataset'[r].telegram_id = u /\ dataset'[r].url = UrlA
             /\ dataset'[r].category \in TokensOf(desc)
          \/ r \in DOMAIN dataset /\ dataset'[r] = dataset[r]
    /\ \A r \in DOMAIN dataset : r \in DOMAIN dataset'

\* C6: when a submitter's second message completes a pair of one reference
\* and one valid descriptor, in either order, and calculate_timestamp
\* returns a timestamp and no store write fails, the evaluation succeeds and
\* upserts exactly one Record per category token, all with the same
\* reference, date and description.
C6_OneRecordPerCategory ==
    [][(last'.op = "add_message" /\ last'.failAt = 0 /\ Resolved(last') # {})
       => \A u \in {last'.user} :
             Len(EntryOf(u).messages) = 1
             => \A message \in Texts(u) : \A desc \in ValidDescriptors :
                   (/\ OneReferenceOneDescriptor(PairOf(u, message), desc)
                    /\ AddMessage(u, message))
                   => /\ last'.res = "success"
                      /\ \E date \in Resolved(last') :
                            OneRecordPerToken(u, desc, date)]_vars

\* C6 witness: the descriptor came first, the reference second, and two
\* Records were stored for it
C6_Witness ==
    /\ last.op = "add_message" /\ last.res = "success"
    /\ last.user = User1 /\ last.ts = <<D1, None>>
    /\ \A cat \in {<<"f">>, <<"g">>} :
          \E r \in DOMAIN dataset :
             dataset[r] = RowOf(MkData(User1, A, cat, UrlA, D1, <<"x">>,
                                       NOT_UPLOADED))

\* C7: every evaluation of two buffered messages, whatever its outcome,
\* leaves the submitter's buffer empty.
C7_EvaluationEmptiesBuffer ==
    [][\A u \in Users : \A message \in Texts(u) :
          (AddMessage(u, message) /\ Len(EntryOf(u).messages) >= 1)
          => user_messages'[u].messages = <<>>]_vars

\* C8: the evaluation of a pair that is not one reference and one parseable
\* descriptor returns a failure result and leaves dataset as it was.
C8_InvalidPairRejected ==
    [][\A u \in Users : \A message \in Texts(u) :
          (/\ AddMessage(u, message)
           /\ Len(EntryOf(u).messages) >= 1
           /\ \A desc \in ValidDescriptors :
                 ~OneReferenceOneDescriptor(PairOf(u, message), desc))
          => /\ last'.res \in {"invalid", "dbfail"}
             /\ dataset' = dataset]_vars

---------------------------------------------------------------------------
(* upload_data.py: the upload pass *)

CORRECT_CATEGORIES ==
    <<Str("general"), Str("clothing"), Str("medical"), Str("restaurant"),
      Str("AI"), Str("fun"), Str("beauty"), Str("medical"), Str("education"),
      Str("inspirational"), Str("other")>>

\* Mutant of NotInCorrectCategories: the first answer is taken as it is
NotInCorrectCategories_firstAnswer(v) == FALSE

\* categorized_value not in CORRECT_CATEGORIES
NotInCorrectCategories(v) ==
    \A i \in 1..Len(CORRECT_CATEGORIES) : CORRECT_CATEGORIES[i] # v

\* What the model may answer to categorize, before the strip(): a label of
\* the vocabulary, one with whitespace around it, "meditation" (a label of
\* the prompt that CORRECT_CATEGORIES does not hold) and a word of no list
ResponseTexts ==
    {Str("fun"), <<" ", "AI", " ">>, Str("meditation"), Str("snack")}

\* categorize: the stripped text of the response
categorize(text) == strip(text)

\* Mutant of get_payload_data: only the rows not marked uploaded are read
get_payload_data_notUploaded(d, storeFails) ==
    IF storeFails THEN <<>>
    ELSE SelectSeq([r \in 1..Max(DOMAIN d) |->
                      IF r \in DOMAIN d
                      THEN [rowid |-> r, row |-> d[r]]
                      ELSE [rowid |-> 0, row |-> NoArgs]],
                   LAMBDA e : e.rowid # 0
                              /\ e.row.upload_status = NOT_UPLOADED)

\* get_payload_data: the rows of dataset by rowid, [] when sqlite3 raises
RECURSIVE RowsOf(_, _)
RowsOf(d, S) ==
    IF S = {} THEN <<>>
    ELSE LET r == CHOOSE m \in S : \A n \in S : m <= n
         IN  <<[rowid |-> r, row |-> d[r]]>> \o RowsOf(d, S \ {r})

get_payload_data(d, storeFails) ==
    IF storeFails THEN <<>> ELSE RowsOf(d, DOMAIN d)

\* payload, the one element of the list posted
Payload(row, categorized_value) ==
    [post_url |-> row.url, date |-> row.date,
     category |-> categorized_value, description |-> row.description]

\* The for loop takes its next row, or the script ends
NextRow(u) ==
    IF u.i < Len(u.rows)
    THEN [u EXCEPT !.pc = "normalize", !.i = u.i + 1,
                   !.categorized_value = None, !.calls = 0,
                   !.payload = NoPayload, !.status = None]
    ELSE [NoUpload EXCEPT !.pc = "done"]

\* The bot stores a Record, while the script runs or not; it waits for the
\* write transaction of change_upload_status to end.
Submit(data) ==
    /\ txn = NoTxn
    /\ Conflicts(dataset, data) = {}
          => Cardinality(DOMAIN dataset) + Len(dataset_backup) < MaxBackup
    /\ dataset' = save_data_to_db(dataset, data, FALSE).d
    /\ UNCHANGED <<dataset_backup, txn, prom, user_messages, upl, last, elsewhere>>

\* The script is started: rows = get_payload_data()
StartPass ==
    /\ upl.pc \in {"off", "done", "dead"}
    /\ \E storeFails \in BOOLEAN :
          LET rows == get_payload_data(dataset, storeFails)
          IN  upl' = IF rows = <<>>
                     THEN [NoUpload EXCEPT !.pc = "done"]
                     ELSE [NoUpload EXCEPT !.pc = "normalize",
                                           !.rows = rows, !.i = 1]
    /\ UNCHANGED <<dataset, dataset_backup, txn, prom, user_messages, last, elsewhere>>

\* Mutant of Answered: the call whose answer ends the loop is not counted
Answered_uncounted(u, text) ==
    IF text = Raised
    THEN [u EXCEPT !.pc = "dead"]
    ELSE IF NotInCorrectCategories(categorize(text))
    THEN [u EXCEPT !.categorized_value = categorize(text),
                   !.calls = IF u.calls < MaxCalls
                             THEN u.calls + 1 ELSE MaxCalls]
    ELSE [u EXCEPT !.categorized_value = categorize(text),
                   !.pc = "post",
                   !.payload = Payload(u.rows[u.i].row, categorize(text))]

\* The script after one categorized_value = categorize(category), before the
\* while loop or in its body, and the test of the loop: the call answers
\* text, or it raises, which ends the script
Answered(u, text) ==
    IF text = Raised
    THEN [u EXCEPT !.pc = "dead"]
    ELSE LET v == categorize(text)
             calls == IF u.calls < MaxCalls THEN u.calls + 1 ELSE MaxCalls
         IN  IF NotInCorrectCategories(v)
             THEN [u EXCEPT !.categorized_value = v, !.calls = calls]
             ELSE [u EXCEPT !.categorized_value = v, !.calls = calls,
                            !.pc = "post",
                            !.payload = Payload(u.rows[u.i].row, v)]

\* The normalization loop, one call at a time, with any answer
Categorize ==
    /\ upl.pc = "normalize"
    /\ \E text \in ResponseTexts \cup {Raised} : upl' = Answered(upl, text)
    /\ UNCHANGED <<dataset, dataset_backup, txn, prom, user_messages, last,
                   elsewhere>>

\* Mutant of Post: change_upload_status is called whatever the status
Post_anyStatus ==
    /\ upl.pc = "post"
    /\ \E status \in {"200", "500", "raise"} :
          IF status # "raise"
          THEN /\ ConnectTo(ArgsOf(upl.rows[upl.i].rowid, upl.rows[upl.i].row,
                                   upl.categorized_value), FALSE)
               /\ upl' = [upl EXCEPT !.pc = "promote", !.status = Str(status)]
               /\ posted' = (posted \cup {upl.rows[upl.i].rowid})
                               \cap DOMAIN dataset
               /\ UNCHANGED <<responses, downloader, temp_dir, handlers>>
          ELSE /\ upl' = NextRow(upl)
               /\ UNCHANGED <<dataset, dataset_backup, txn, prom,
                              user_messages, last, elsewhere>>

\* requests.post: status 200 and the call of change_upload_status, another
\* status, or an exception
Post ==
    /\ upl.pc = "post"
    /\ \E status \in {"200", "500", "raise"} :
          IF status = "200"
          THEN /\ ConnectTo(ArgsOf(upl.rows[upl.i].rowid, upl.rows[upl.i].row,
                                   upl.categorized_value), FALSE)
               /\ upl' = [upl EXCEPT !.pc = "promote", !.status = Str(status)]
               /\ posted' = (posted \cup {upl.rows[upl.i].rowid})
                               \cap DOMAIN dataset
               /\ UNCHANGED <<responses, downloader, temp_dir, handlers>>
          ELSE /\ upl' = NextRow(upl)
               /\ UNCHANGED <<dataset, dataset_backup, txn, prom,
                              user_messages, last, elsewhere>>

\* change_upload_status has returned: its connection and cursor are gone
Returned ==
    /\ upl.pc = "promote"
    /\ prom.pc = "idle"
    /\ upl' = NextRow(upl)
    /\ prom' = IdleProm
    /\ UNCHANGED <<dataset, dataset_backup, txn, user_messages, last, elsewhere>>

PromoteStep ==
    \/ PromoteUpdate
    \/ PromoteCommit1
    \/ PromoteInsert
    \/ PromoteDelete
    \/ PromoteCommit2
    \/ PromoteFail

NextUpload ==
    \/ \E data \in ValidData : Submit(data)
    \/ StartPass
    \/ Categorize
    \/ Post
    \/ Returned
    \/ PromoteStep

SpecUpload == Init /\ [][NextUpload]_vars

\* The script runs on: every call it makes returns or raises
FairSpecUpload ==
    /\ SpecUpload
    /\ WF_vars(Categorize)
    /\ WF_vars(Post)
    /\ WF_vars(Returned)
    /\ WF_vars(PromoteStep)

---------------------------------------------------------------------------
(* The normalization loop against a stub of the classification capability *)

\* What the stub is set to answer, call after call
RECURSIVE StubAnswers(_)
StubAnswers(n) ==
    IF n = 0 THEN {<<>>}
    ELSE {Append(rs, text) :
             rs \in StubAnswers(n - 1), text \in ResponseTexts \cup {Raised}}

\* The script has read the one pending row and is about to normalize its
\* category
InitNormalize ==
    /\ dataset = save_data_to_db(<<>>, BaseData, FALSE).d
    /\ dataset_backup = <<>>
    /\ txn = NoTxn
    /\ prom = IdleProm
    /\ user_messages = NoBuffers
    /\ upl = [NoUpload EXCEPT !.pc = "normalize",
                              !.rows = get_payload_data(dataset, FALSE),
                              !.i = 1]
    /\ last = NoLast
    /\ responses \in UNION {StubAnswers(n) : n \in 1..MaxCalls}
    /\ downloader = NoDownloader
    /\ temp_dir = {}
    /\ handlers = NoHandlers
    /\ posted = {}

\* The normalization loop, one call at a time, answered by the stub
CategorizeStubbed ==
    /\ upl.pc = "normalize"
    /\ upl.calls < Len(responses)
    /\ upl' = Answered(upl, responses[upl.calls + 1])
    /\ UNCHANGED <<dataset, dataset_backup, txn, prom, user_messages, last,
                   elsewhere>>

NextNormalize == CategorizeStubbed

SpecNormalize == InitNormalize /\ [][NextNormalize]_vars

---------------------------------------------------------------------------
(* Claims on the upload pass *)

Vocabulary == {CORRECT_CATEGORIES[i] : i \in 1..Len(CORRECT_CATEGORIES)}

\* C9: the category of the payload the script posts, and of every row it
\* writes to dataset_backup, is a member of CORRECT_CATEGORIES, whatever
\* categorize answers.
C9_CategoryInVocabulary ==
    /\ upl.payload # NoPayload => upl.payload.category \in Vocabulary
    /\ \A i \in 1..Len(txn.b) : txn.b[i].category \in Vocabulary
    /\ \A i \in 1..Len(dataset_backup) :
          dataset_backup[i].category \in Vocabulary

\* C9 witness: the loop called categorize again after an answer outside the
\* vocabulary, and the row was archived with the label it then got
C9_Witness ==
    /\ upl.pc = "promote"
    /\ upl.calls >= 2
    /\ prom.res = "ok"
    /\ dataset_backup # <<>>
    /\ dataset_backup[Len(dataset_backup)].category = upl.payload.category
    /\ upl.payload.category = Str("AI")

\* C10: the normalization of a row ends: the script leaves the loop around
\* categorize.
C10_NormalizationEnds == (upl.pc = "normalize") ~> (upl.pc # "normalize")

\* The k-th answer of the stub is its first answer inside the vocabulary
FirstInVocabulary(k) ==
    /\ k \in 1..Len(responses)
    /\ responses[k] # Raised
    /\ categorize(responses[k]) \in Vocabulary
    /\ \A j \in 1..(k - 1) :
          responses[j] # Raised /\ categorize(responses[j]) \notin Vocabulary

\* C11: when the k-th answer of categorize is the first one inside the
\* vocabulary, the loop makes no more than k calls, and once it has ended
\* categorized_value (and the category of the payload) is that answer and
\* categorize was called exactly k times.
C11_FirstVocabularyAnswer ==
    \A k \in 1..Len(responses) :
       FirstInVocabulary(k)
       => /\ upl.calls <= k
          /\ upl.pc # "normalize"
                => /\ upl.pc = "post"
                   /\ upl.calls = k
                   /\ upl.categorized_value = categorize(responses[k])
                   /\ upl.payload.category = categorize(responses[k])

\* C11 witness: the stub answered 'snack' and then a label of the
\* vocabulary, and the loop ended with that label after two calls
C11_Witness ==
    /\ responses = <<Str("snack"), <<" ", "AI", " ">>>>
    /\ upl.pc = "post"
    /\ upl.calls = 2
    /\ upl.categorized_value = Str("AI")

---------------------------------------------------------------------------
(* instagram_downloader.py: the fulfilment pass over dataset_backup *)

\* The names the module binds: its imports and its top-level definitions
ModuleNames_complete ==
    {"os", "sqlite3", "requests", "logging", "time", "tempfile", "Path",
     "urlparse", "load_dotenv", "yt_dlp", "instaloader", "DB_FILE_PATH",
     "pixoform_aws_upload_url", "pixoform_aws_delete_url", "logger",
     "InstagramDownloader", "main", "re", "output_dir"}

ModuleNames ==
    {"os", "sqlite3", "requests", "logging", "time", "tempfile", "Path",
     "urlparse", "load_dotenv", "yt_dlp", "instaloader", "DB_FILE_PATH",
     "pixoform_aws_upload_url", "pixoform_aws_delete_url", "logger",
     "InstagramDownloader", "main"}

DOWNLOADED == Str("downloaded")
PROCESSED == Str("processed")
FAILED == Str("failed")

\* A reference of the form the downloader looks for; here "H" stands for
\* https://www.instagram.com
UrlReel == <<"H", "/", "r", "e", "e", "l", "/", "a">>

\* re.search("instagram\.com/(reel|p)/([A-Za-z0-9_-]+)", url)
MatchesPost(url) ==
    \/ /\ Len(url) >= 8
       /\ SubSeq(url, 1, 7) = <<"H", "/", "r", "e", "e", "l", "/">>
       /\ url[8] \notin {"/", "?", " "}
    \/ /\ Len(url) >= 5
       /\ SubSeq(url, 1, 4) = <<"H", "/", "p", "/">>
       /\ url[5] \notin {"/", "?", " "}

\* The value of the aws_url column of a row: NULL while the column, which
\* update_database_with_aws_url adds, does not exist
RemoteLocation(row) ==
    IF "aws_url" \in DOMAIN row THEN row.aws_url ELSE None

\* get_distinct_urls: every row of dataset_backup, [] when sqlite3 raises
get_distinct_urls(b, storeFails) ==
    IF storeFails THEN <<>>
    ELSE [r \in 1..Len(b) |->
            [url |-> b[r].url, rowid |-> r, telegram_id |-> b[r].telegram_id,
             username |-> b[r].username, category |-> b[r].category,
             date |-> b[r].date, description |-> b[r].description]]

\* get_download_url_data: the rowids of the rows still 'not_downloaded'
get_download_url_data(b) ==
    {r \in 1..Len(b) : b[r].download_status = NOT_DOWNLOADED}

\* change_download_status: UPDATE dataset_backup SET download_status = ?
\* WHERE rowid = ?; an exception is logged
change_download_status(b, rowid, status, storeFails) ==
    IF storeFails \/ rowid \notin 1..Len(b) THEN b
    ELSE [b EXCEPT ![rowid].download_status = status]

\* The files of a row in the directories of the downloader
OutputPath(rowid) == <<"output_path", ToString(rowid)>>
PostFiles(rowid) == <<"post", ToString(rowid)>>

\* The location the archive returns for the file of a row
AwsUrl(rowid) == <<"aws", ToString(rowid)>>

\* download_instagram_video_instaloader: the exception that leaves it (None
\* when it returns), the value it returns and the files it created.
\* instagram: whether the service would deliver the post (ok, error).
download_instagram_video_instaloader(url, rowid, instagram) ==
    IF "re" \notin ModuleNames
    THEN [raised |-> Str("NameError"), value |-> None, files |-> {}]
    ELSE IF ~MatchesPost(url)
    THEN [raised |-> Str("ValueError"), value |-> None, files |-> {}]
    ELSE IF "output_dir" \notin ModuleNames
    THEN [raised |-> Str("NameError"), value |-> None,
          files |-> {OutputPath(rowid)}]
    ELSE [raised |-> None, value |-> None,
          files |-> IF instagram = "ok"
                    THEN {OutputPath(rowid), PostFiles(rowid)}
                    ELSE {OutputPath(rowid)}]

\* update_database_with_aws_url: ALTER TABLE adds the column when it is not
\* there, UPDATE sets it for the row
update_database_with_aws_url(b, rowid, aws_url) ==
    [r \in 1..Len(b) |->
        [c \in DOMAIN b[r] \cup {"aws_url"} |->
            IF c = "aws_url"
            THEN IF r = rowid THEN aws_url ELSE RemoteLocation(b[r])
            ELSE b[r][c]]]

\* upload_to_aws: the table after the call and the value returned.
\* aws: the answer of the archive to the POST (200, 500, raise)
upload_to_aws(b, file_path, rowid, aws) ==
    IF aws = "200"
    THEN [b |-> update_database_with_aws_url(b, rowid, AwsUrl(rowid)),
          value |-> AwsUrl(rowid)]
    ELSE [b |-> b, value |-> None]

\* cleanup_local_file: os.remove when the file exists; an exception is logged
cleanup_local_file(disk, file_path, removeFails) ==
    IF removeFails THEN disk ELSE disk \ {file_path}

\* One pass through the body of the for loop of process_all_videos
ProcessOne(b, disk, url_data, instagram, aws, removeFails) ==
    LET got == download_instagram_video_instaloader(
                   url_data.url, url_data.rowid, instagram)
        sent == upload_to_aws(b, got.value, url_data.rowid, aws)
    IN  IF got.raised # None
        THEN [b |-> b, disk |-> disk \cup got.files, raised |-> got.raised,
              downloaded_file |-> None, aws_url |-> None]
        ELSE IF Truthy(got.value)
        THEN [b |-> sent.b,
              disk |-> cleanup_local_file(disk \cup got.files, got.value,
                                          removeFails),
              raised |-> None, downloaded_file |-> got.value,
              aws_url |-> sent.value]
        ELSE [b |-> b, disk |-> disk \cup got.files, raised |-> None,
              downloaded_file |-> None, aws_url |-> None]

\* The download_status values a caller of change_download_status passes
DownloadStatuses == {DOWNLOADED, PROCESSED, FAILED, NOT_DOWNLOADED}

\* ArchivedRecords as change_upload_status wrote them: one with a reference
\* of the form the downloader looks for, one with another reference
ArchivedRows ==
    {BackupRow(ArgsOf(0, RowOf(MkData(Str("1"), A, <<"f">>, url, D1, <<"x">>,
                                      NOT_UPLOADED)), Str("fun"))) :
        url \in {UrlReel, UrlA}}

RECURSIVE Archives(_)
Archives(n) ==
    IF n = 0 THEN {<<>>}
    ELSE {Append(b, row) : b \in Archives(n - 1), row \in ArchivedRows}

\* The archive after some upload passes, no fulfilment pass run yet
InitFulfil ==
    /\ dataset = <<>>
    /\ dataset_backup \in UNION {Archives(n) : n \in 0..MaxBackup}
    /\ txn = NoTxn
    /\ prom = IdleProm
    /\ user_messages = NoBuffers
    /\ upl = NoUpload
    /\ last = NoLast
    /\ responses = <<>>
    /\ downloader = NoDownloader
    /\ temp_dir = {}
    /\ handlers = NoHandlers
    /\ posted = {}

\* A caller of the Record Store sets the download_status of a row, while no
\* fulfilment pass runs
ChangeDownloadStatus(rowid, status) ==
    /\ downloader.pc \in {"off", "done", "dead"}
    /\ \E storeFails \in BOOLEAN :
          dataset_backup' =
             change_download_status(dataset_backup, rowid, status, storeFails)
    /\ UNCHANGED <<dataset, txn, prom, user_messages, upl, last, responses,
                   posted, downloader, temp_dir, handlers>>

\* The locations the archive service may give for the media of a row
AwsUrls(rowid) == {AwsUrl(rowid), <<"aws", ToString(rowid), "again">>}

\* A caller of the downloader stores the location of a row, while no
\* fulfilment pass runs
UpdateDatabaseWithAwsUrl(rowid, aws_url) ==
    /\ downloader.pc \in {"off", "done", "dead"}
    /\ rowid <= Len(dataset_backup)
    /\ dataset_backup' =
          update_database_with_aws_url(dataset_backup, rowid, aws_url)
    /\ UNCHANGED <<dataset, txn, prom, user_messages, upl, last, responses,
                   posted, downloader, temp_dir, handlers>>

\* process_all_videos is called: urls_data = self.get_distinct_urls()
ProcessAllVideos ==
    /\ downloader.pc \in {"off", "done", "dead"}
    /\ \E storeFails \in BOOLEAN :
          LET urls_data == get_distinct_urls(dataset_backup, storeFails)
          IN  downloader' =
                 IF urls_data = <<>>
                 THEN [NoDownloader EXCEPT !.pc = "done"]
                 ELSE [NoDownloader EXCEPT !.pc = "download",
                                           !.urls_data = urls_data, !.i = 1]
    /\ UNCHANGED <<dataset, dataset_backup, txn, prom, user_messages, upl,
                   last, responses, posted, temp_dir, handlers>>

\* The body of the for loop for the row the loop is at; an exception that
\* leaves it ends process_all_videos
\* slept: the iteration got to time.sleep(2), its last statement
ProcessUrl ==
    /\ downloader.pc = "download"
    /\ \E instagram \in {"ok", "error"}, aws \in {"200", "500", "raise"},
          removeFails \in BOOLEAN :
          LET url_data == downloader.urls_data[downloader.i]
              r == ProcessOne(dataset_backup, temp_dir, url_data, instagram,
                              aws, removeFails)
              more == r.raised = None
                      /\ downloader.i < Len(downloader.urls_data)
          IN  /\ dataset_backup' = r.b
              /\ temp_dir' = r.disk
              /\ downloader' =
                    [downloader EXCEPT
                       !.attempts =
                          Append(@, [rowid |-> url_data.rowid,
                                     instagram |-> instagram, aws |-> aws,
                                     raised |-> r.raised,
                                     downloaded_file |-> r.downloaded_file,
                                     aws_url |-> r.aws_url,
                                     slept |-> r.raised = None]),
                       !.i = IF more THEN @ + 1 ELSE @,
                       !.pc = IF r.raised # None THEN "dead"
                              ELSE IF more THEN "download" ELSE "done"]
    /\ UNCHANGED <<dataset, txn, prom, user_messages, upl, last, responses,
                   posted, handlers>>

NextFulfil ==
    \/ \E rowid \in 1..MaxBackup, status \in DownloadStatuses :
          ChangeDownloadStatus(rowid, status)
    \/ \E rowid \in 1..MaxBackup : \E aws_url \in AwsUrls(rowid) :
          UpdateDatabaseWithAwsUrl(rowid, aws_url)
    \/ ProcessAllVideos
    \/ ProcessUrl

SpecFulfil == InitFulfil /\ [][NextFulfil]_vars

---------------------------------------------------------------------------
(* Claims on the fulfilment pass *)

PassOver == downloader.pc \in {"done", "dead"}

Attempts == {downloader.attempts[k] : k \in 1..Len(downloader.attempts)}

\* C12: after a fulfilment pass, every record whose retrieval failed in it
\* has download_status 'failed' and no remote location.
C12_RetrievalFailureMarked ==
    PassOver
    => \A a \in Attempts :
          ~Truthy(a.downloaded_file)
          => /\ dataset_backup[a.rowid].download_status = FAILED
             /\ RemoteLocation(dataset_backup[a.rowid]) = None

C14_SuccessMarkedDownloaded ==
    PassOver
    => \A a \in Attempts :
          (a.instagram = "ok" /\ a.aws = "200")
          => /\ dataset_backup[a.rowid].download_status = DOWNLOADED
             /\ RemoteLocation(dataset_backup[a.rowid]) = AwsUrl(a.rowid)

\* C15: the rows a fulfilment pass selects, and so the rows it retrieves,
\* are rows still 'not_downloaded'.
C15_OnlyNotDownloadedSelected ==
    [][/\ ProcessAllVideos
          => \A k \in 1..Len(downloader'.urls_data) :
                downloader'.urls_data[k].rowid
                   \in get_download_url_data(dataset_backup)
       /\ ProcessUrl
          => downloader.urls_data[downloader.i].rowid
                \in get_download_url_data(dataset_backup)]_vars

\* C16: a fulfilment pass that has ended has attempted every row it
\* selected.
C16_EveryRowAttempted ==
    PassOver => Len(downloader.attempts) = Len(downloader.urls_data)

\* C17: a download_status other than 'not_downloaded' never changes again,
\* and none is set back to 'not_downloaded'.
C17_DownloadStatusTerminal ==
    [][\A r \in 1..Len(dataset_backup) :
          dataset_backup[r].download_status # NOT_DOWNLOADED
          => dataset_backup'[r].download_status
                = dataset_backup[r].download_status]_vars

\* C25: once a row of dataset_backup has a remote location, no step gives it
\* another one or takes it away.
C25_RemoteLocationAssignedOnce ==
    [][\A r \in 1..Len(dataset_backup) :
          Truthy(RemoteLocation(dataset_backup[r]))
          => RemoteLocation(dataset_backup'[r])
                = RemoteLocation(dataset_backup[r])]_vars

---------------------------------------------------------------------------
(* Further claims on the Record Store *)

\* C18: the upload_status of a row of dataset becomes 'uploaded' only by the
\* first commit of change_upload_status, and an 'uploaded' row never goes
\* back to another upload_status.
C18_UploadStatusOneWay ==
    [][\A r \in DOMAIN dataset' :
          /\ (/\ dataset'[r].upload_status = UPLOADED
              /\ r \in DOMAIN dataset => dataset[r].upload_status # UPLOADED)
             => PromoteCommit1
          /\ (r \in DOMAIN dataset /\ dataset[r].upload_status = UPLOADED)
             => dataset'[r].upload_status = UPLOADED]_vars

\* The messages pending for u in the buffers b
Pending(b, u) == IF u \in DOMAIN b THEN b[u].messages ELSE <<>>

\* C20: a reset of a submitter leaves that submitter with no pending
\* message, evaluates nothing (no Record is created or changed, the date
\* resolver is not called) and leaves the pending messages of every other
\* submitter as they were.
C20_ResetOnlyClears ==
    [][last'.op = "clear_user_messages" =>
          /\ Pending(user_messages', last'.user) = <<>>
          /\ dataset' = dataset
          /\ dataset_backup' = dataset_backup
          /\ last'.ts = <<None, None>>
          /\ \A v \in Users \ {last'.user} :
                Pending(user_messages', v) = Pending(user_messages, v)]_vars

\* C20: a submitter with a pending message has been reset while another
\* submitter has a pending message and a Record is stored
C20_Witness ==
    /\ last.op = "clear_user_messages"
    /\ last.res = "cleared"
    /\ Pending(user_messages, last.user) = <<>>
    /\ \E v \in Users \ {last.user} : Pending(user_messages, v) # <<>>
    /\ dataset # <<>>

---------------------------------------------------------------------------
(* main.py: the handle_message coroutines *)

\* The two messages process_messages reads when message joins the buffer of
\* u: messages[:2]
Pair(u, message) == SubSeq(Append(EntryOf(u).messages, message), 1, 2)

\* The bot is sent a text message: the application starts a handle_message
\* coroutine for the update.  A submitter sends each text once here, so
\* that a text names its message.
Dispatch(u, message) ==
    /\ Len(handlers) < MaxUpdates
    /\ \A h \in 1..Len(handlers) :
          handlers[h].user = u => handlers[h].text # message
    /\ handlers' = Append(handlers,
                          [user |-> u, text |-> message, pc |-> "start",
                           seen |-> 0, evaluated |-> <<>>])
    /\ UNCHANGED <<dataset, dataset_backup, txn, prom, user_messages, upl,
                   last, responses, posted, downloader, temp_dir>>

\* handle_message up to its first await: add_message, a plain call, runs to
\* its end before any other coroutine runs.  An exception that leaves
\* add_message ends the coroutine.
\* seen: the length of the buffer the message found
\* evaluated: the two messages process_messages read, if it was called
HandleMessage(h) ==
    /\ h \in 1..Len(handlers)
    /\ handlers[h].pc = "start"
    /\ add_message(handlers[h].user, handlers[h].text)
    /\ handlers' =
          [handlers EXCEPT
             ![h].pc = IF last'.res = "raise" THEN "raised" ELSE "reply",
             ![h].seen = Len(EntryOf(handlers[h].user).messages),
             ![h].evaluated =
                IF Len(EntryOf(handlers[h].user).messages) >= 1
                THEN Pair(handlers[h].user, handlers[h].text)
                ELSE <<>>]
    /\ UNCHANGED <<dataset_backup, txn, prom, upl, responses, posted, downloader,
                   temp_dir>>

\* await update.message.reply_text(...): the coroutine ends
Reply(h) ==
    /\ h \in 1..Len(handlers)
    /\ handlers[h].pc = "reply"
    /\ handlers' = [handlers EXCEPT ![h].pc = "done"]
    /\ UNCHANGED <<dataset, dataset_backup, txn, prom, user_messages, upl,
                   last, responses, posted, downloader, temp_dir>>

NextHandlers ==
    \/ \E u \in Users : \E message \in Texts(u) : Dispatch(u, message)
    \/ \E h \in 1..MaxUpdates : HandleMessage(h)
    \/ \E h \in 1..MaxUpdates : Reply(h)

SpecHandlers == InitIntake /\ [][NextHandlers]_vars

---------------------------------------------------------------------------
(* Claims on the handlers *)

\* The handlers of u that have run add_message
Handled(u) ==
    {h \in 1..Len(handlers) :
        handlers[h].user = u /\ handlers[h].pc # "start"}

\* C19: whatever the interleaving of the handlers of a submitter, the
\* messages that found the buffer empty are every other one of the messages
\* handled, each further message triggered one evaluation, and no two
\* evaluations read the same pair of messages.
C19_OneEvaluationPerPair ==
    \A u \in Users :
       LET first == {h \in Handled(u) : handlers[h].seen = 0}
           evaluating == {h \in Handled(u) : handlers[h].evaluated # <<>>}
       IN  /\ Cardinality(first) + Cardinality(evaluating)
                 = Cardinality(Handled(u))
           /\ Cardinality(evaluating) <= Cardinality(first)
           /\ \A g, h \in evaluating :
                 g # h => handlers[g].evaluated # handlers[h].evaluated

---------------------------------------------------------------------------
(* Further claims on the upload pass *)

\* The rowids whose rows leave dataset in this step
Leaving == DOMAIN dataset \ DOMAIN dataset'

\* C21: a Record leaves dataset only in the final commit of the
\* change_upload_status call the pass made for that Record after a 200
\* response; a row is added to dataset_backup only by such a commit; and a
\* POST that returns another status or raises leaves both tables as they
\* were, the pass going on without calling change_upload_status.
C21_LeavesOnlyAfter200 ==
    [][/\ \A r \in Leaving :
             /\ upl.pc = "promote"
             /\ upl.status = Str("200")
             /\ upl.rows[upl.i].rowid = r
             /\ prom.pc = "deleted"
             /\ prom.args.rowid = r
       /\ Len(dataset_backup') > Len(dataset_backup) =>
             /\ upl.pc = "promote"
             /\ upl.status = Str("200")
             /\ prom.pc = "deleted"
             /\ dataset_backup' =
                   Append(dataset_backup, BackupRow(prom.args))
             /\ prom.args.rowid = upl.rows[upl.i].rowid
       /\ (upl.pc = "post" /\ upl' # upl /\ upl'.status # Str("200")) =>
             /\ dataset' = dataset
             /\ dataset_backup' = dataset_backup
             /\ prom' = prom
             /\ upl'.pc # "promote"]_vars

\* C21: the promotion that followed a 200 response has moved the Record of
\* the pass from dataset to dataset_backup
C21_Witness ==
    /\ upl.pc = "promote"
    /\ upl.status = Str("200")
    /\ prom.pc = "idle"
    /\ prom.res = "ok"
    /\ upl.rows[upl.i].rowid \notin DOMAIN dataset
    /\ dataset_backup # <<>>
    /\ dataset_backup[Len(dataset_backup)].url = upl.rows[upl.i].row.url

\* C22: with the passes run one after another, a Record of dataset whose
\* payload the remote API has accepted once is not posted with success
\* again, and no two rows of dataset_backup come from one Record.
C22_NoDoubleProcessing ==
    [][(upl.pc = "post" /\ upl'.pc = "promote") =>
          upl.rows[upl.i].rowid \notin posted]_vars

---------------------------------------------------------------------------
(* Further claims on the intake *)

\* C23: when add_message leaves the buffer of its submitter holding one
\* message, it returns None (awaiting the second message), the date resolver
\* has not been called, dataset is as it was and the pending messages of
\* every other submitter are as they were.
C23_OneMessageAwaits ==
    [][\A h \in 1..Len(handlers) :
          (/\ handlers[h].pc = "start"
           /\ handlers'[h].pc # "start"
           /\ Len(Pending(user_messages', handlers[h].user)) = 1) =>
             /\ last'.res = "awaiting"
             /\ last'.ts = <<None, None>>
             /\ handlers'[h].evaluated = <<>>
             /\ dataset' = dataset
             /\ \A v \in Users \ {handlers[h].user} :
                   Pending(user_messages', v) = Pending(user_messages, v)]_vars

\* C28: an add_message that returns a failure result (the pair is invalid,
\* or a store write failed) leaves dataset as it was before the message.
C28_FailureLeavesStoreUnchanged ==
    [][(last'.op = "add_message" /\ last'.res \in {"invalid", "dbfail"})
          => dataset' = dataset]_vars

---------------------------------------------------------------------------
(* main.py: descriptors parsed one by one *)

\* The characters of the descriptors: a digit, the comma, a letter, a blank
Alphabet == {"2", ",", "f", " "}

RECURSIVE TextsUpTo(_)
TextsUpTo(n) ==
    IF n = 0 THEN {<<>>}
    ELSE LET shorter == TextsUpTo(n - 1)
         IN  shorter \cup {Append(t, c) : t \in shorter, c \in Alphabet}

NoParse == [op |-> "none", text |-> <<>>, parsed |-> <<None, None, None>>,
            fields |-> NoFields]

InitParse ==
    /\ dataset = <<>>
    /\ dataset_backup = <<>>
    /\ txn = NoTxn
    /\ prom = IdleProm
    /\ user_messages = NoBuffers
    /\ upl = NoUpload
    /\ responses = <<>>
    /\ downloader = NoDownloader
    /\ temp_dir = {}
    /\ handlers = NoHandlers
    /\ posted = {}
    /\ last \in {[NoParse EXCEPT !.text = t] : t \in TextsUpTo(MaxText)}

\* process_messages reads the pair (UrlA, last.text): what the parser
\* returns for the text and what the for loop leaves in url, date,
\* categories and description, calculate_timestamp doing o
ParseDescriptor(o) ==
    /\ last.op = "none"
    /\ last' = [op |-> "parse_date_categories_description",
                text |-> last.text,
                parsed |-> parse_date_categories_description(last.text),
                fields |-> Fields(<<UrlA, last.text>>, <<None, o>>)]
    /\ UNCHANGED <<dataset, dataset_backup, txn, prom, user_messages, upl,
                   elsewhere>>

NextParse ==
    \E o \in TsOutcomes : ParseDescriptor(o)

SpecParse == InitParse /\ [][NextParse]_vars

---------------------------------------------------------------------------
(* Claims on the parser *)

\* The number of parts the commas cut t into
PartsIn(t) == Cardinality({i \in 1..Len(t) : t[i] = ","}) + 1

HasNoComma(t) == \A i \in 1..Len(t) : t[i] # ","

\* C24: a descriptor of three comma-separated parts is parsed into those
\* parts as (date, categories, description); one of two parts into its parts
\* and no description, and the description then stored is the placeholder;
\* one of any other number of parts into (None, None, None), and the pair is
\* then not complete.
C24_DescriptorParts ==
    last.op = "parse_date_categories_description" =>
       LET t == strip(last.text)
           p == last.parsed
           f == last.fields
       IN  /\ PartsIn(t) = 3 =>
                /\ p[1] \o <<",">> \o p[2] \o <<",">> \o p[3] = t
                /\ HasNoComma(p[1]) /\ HasNoComma(p[2]) /\ HasNoComma(p[3])
                /\ (Complete(f) /\ p[3] # <<>>) =>
                      f.description = p[3] /\ f.categories = p[2]
           /\ PartsIn(t) = 2 =>
                /\ p[1] \o <<",">> \o p[2] = t
                /\ HasNoComma(p[1]) /\ HasNoComma(p[2])
                /\ p[3] = None
                /\ Complete(f) =>
                      f.description = NO_DESCRIPTION /\ f.categories = p[2]
           /\ PartsIn(t) \notin {2, 3} =>
                /\ p = <<None, None, None>>
                /\ ~Complete(f)

\* C24: a descriptor of two parts between blanks has been parsed and the
\* pair is complete with the placeholder as description
C24_Witness ==
    /\ last.op = "parse_date_categories_description"
    /\ strip(last.text) # last.text
    /\ PartsIn(strip(last.text)) = 2
    /\ last.parsed[3] = None
    /\ Complete(last.fields)
    /\ last.fields.description = NO_DESCRIPTION

---------------------------------------------------------------------------
(* Claims on the upload pass beside the intake, and on its progress *)

\* C27: the row change_upload_status writes to dataset_backup has the
\* username, date and description the Record has in dataset when it leaves
\* dataset: what the submitter sent again after the pass read its rows is
\* archived, not lost.
C27_PromotionArchivesCurrentData ==
    [][\A r \in Leaving :
          \E k \in 1..Len(dataset_backup') :
             /\ k > Len(dataset_backup)
             /\ dataset_backup'[k].telegram_id = dataset[r].telegram_id
             /\ dataset_backup'[k].url = dataset[r].url
             /\ dataset_backup'[k].username = dataset[r].username
             /\ dataset_backup'[k].date = dataset[r].date
             /\ dataset_backup'[k].description = dataset[r].description]_vars

\* C29: a pass ended by a failure has no row left after the one that failed
\* (a pass that ends normally has taken every row).
C29_FailureDoesNotStopPass ==
    upl.pc = "dead" => upl.i = Len(upl.rows)

\* The rowids a row of dataset can have
Rowids == 1..MaxBackup

\* The classification capability answers a label of the vocabulary
CategorizeLabel ==
    /\ Categorize
    /\ upl'.pc = "post"

\* The remote API answers 200
Post200 ==
    /\ Post
    /\ upl'.pc = "promote"

\* Records are pending and no pass has run yet
InitRerun ==
    /\ dataset \in {save_data_to_db(<<>>, BaseData, FALSE).d,
                     save_data_to_db(save_data_to_db(<<>>, BaseData, FALSE).d,
                                     MkData(Str("1"), A, <<"g">>, UrlA, D2,
                                            <<"x">>, NOT_UPLOADED), FALSE).d}
    /\ dataset_backup = <<>>
    /\ txn = NoTxn
    /\ prom = IdleProm
    /\ user_messages = NoBuffers
    /\ upl = NoUpload
    /\ responses = <<>>
    /\ downloader = NoDownloader
    /\ temp_dir = {}
    /\ handlers = NoHandlers
    /\ posted = {}
    /\ last = NoLast

\* upload_data.py run after run, the bot storing nothing meanwhile
NextRerun ==
    \/ StartPass
    \/ Categorize
    \/ Post
    \/ Returned
    \/ PromoteStep

SpecRerun == InitRerun /\ [][NextRerun]_vars

\* upload_data.py is run again and again, every call it makes returns or
\* raises, and the classification capability answers a label of the
\* vocabulary again and again, the remote API answers 200 again and again,
\* and each statement of change_upload_status succeeds again and again
FairSpecRerun ==
    /\ SpecRerun
    /\ WF_vars(StartPass)
    /\ WF_vars(Categorize)
    /\ WF_vars(Post)
    /\ WF_vars(Returned)
    /\ WF_vars(PromoteStep)
    /\ SF_vars(CategorizeLabel)
    /\ SF_vars(Post200)
    /\ SF_vars(PromoteUpdate)
    /\ SF_vars(PromoteCommit1)
    /\ SF_vars(PromoteInsert)
    /\ SF_vars(PromoteDelete)
    /\ SF_vars(PromoteCommit2)

\* C30: with the pass run again and again, the classification and the remote
\* API answering well again and again, every Record that is in dataset is
\* eventually out of dataset and its values in dataset_backup.
C30_PendingEventuallyArchived ==
    \A r \in Rowids :
       (r \in DOMAIN dataset) ~>
          (/\ r \notin DOMAIN dataset
           /\ dataset_backup # <<>>)

\* C30: the second of two pending Records has been moved to dataset_backup
\* by a pass that had only that Record left to take
C30_Witness ==
    /\ Len(dataset_backup) = 2
    /\ dataset = <<>>
    /\ upl.pc = "promote"
    /\ upl.i = 1
    /\ Len(upl.rows) = 1
    /\ upl.rows[1].rowid = 2
    /\ prom.res = "ok"

====
